---- MODULE Spec2Model ----
(***************************************************************************)
(* Model of the api-err crate: an error value made of a cause chain and an *)
(* optional Category, the combinators that attach a category or a context  *)
(* layer to a result-like value, and the two protocol status mappers.      *)
(*                                                                         *)
(* A result-like value is followed as it is moved from one combinator to   *)
(* the next (single owner, move semantics): `res` is the value, `input`    *)
(* the value the computation produced, `calls` the number of times a       *)
(* with_context closure has run, `log` the rendered context messages       *)
(* attached so far on the failure path (newest first), and `last` the      *)
(* operation applied last together with its arguments and operand.         *)
(***************************************************************************)
EXTENDS Integers, Sequences, FiniteSets, TLC

VARIABLES res, input, calls, log, last

vars == <<res, input, calls, log, last>>

(***************************************************************************)
(* Bounds.                                                                 *)
(***************************************************************************)
\* Largest number of context layers attached to one error.
MaxCtx == 2

(***************************************************************************)
(* Values.                                                                 *)
(***************************************************************************)
\* Option<Category>
None == [tag |-> "None"]
Some(v) == [tag |-> "Some", v |-> v]

\* Category::BadRequest and Category::Custom { http_status, json_rpc_status }
BadRequest == [tag |-> "BadRequest"]
Custom(h, j) == [tag |-> "Custom", http_status |-> h, json_rpc_status |-> j]

\* u16 and i32 ranges of the Custom fields, and the sampled values used.
U16 == 0 .. (2^16 - 1)
I32Max == 2147483647
I32Min == (0 - I32Max) - 1
HttpSamples == {0, 418, 2^16 - 1}
JsonRpcSamples == {I32Min, -32099, I32Max}
Categories == {BadRequest} \cup {Custom(h, j) : h \in HttpSamples, j \in JsonRpcSamples}

\* Values of a type implementing Display: a string or an integer.
DStr(s) == [ty |-> "str", s |-> s, n |-> 0]
DInt(n) == [ty |-> "int", s |-> "", n |-> n]
Messages == {DStr("Input too large"), DStr("extra"), DInt(-42)}

Digit == <<"0", "1", "2", "3", "4", "5", "6", "7", "8", "9">>

RECURSIVE Decimal(_)
Decimal(n) ==
    IF n < 0 THEN "-" \o Decimal(0 - n)
    ELSE IF n < 10 THEN Digit[n + 1]
    ELSE Decimal(n \div 10) \o Digit[(n % 10) + 1]

\* Display::to_string of a message.
to_string(d) == IF d.ty = "str" THEN d.s ELSE Decimal(d.n)

\* A closure FnOnce() -> C: the value it returns; running it fires the probe.
Closures == {[ret |-> m] : m \in Messages}
Call(f, n) == [ret |-> f.ret, calls |-> n + 1]

\* Native failures (values of an error type that anyhow::Error can be built from).
NativeFailures == {[ty |-> "ParseIntError", msg |-> "invalid digit found in string"],
                   [ty |-> "TryFromIntError", msg |-> "out of range integral type conversion attempted"]}
SuccessValues == {1, 2}

\* Result-like values.  ty is the static type of the value:
\* "Option" = Option<T>, "StdResult" = Result<T, E> with a native E,
\* "Result" = api_err::Result<T> = Result<T, Error>.
OptSome(v) == [ty |-> "Option", tag |-> "Some", v |-> v]
OptNone == [ty |-> "Option", tag |-> "None"]
Ok(ty, v) == [ty |-> ty, tag |-> "Ok", v |-> v]
Err(ty, e) == [ty |-> ty, tag |-> "Err", e |-> e]

IsSuccess(r) == r.tag \in {"Ok", "Some"}
IsFailure(r) == r.tag \in {"Err", "None"}

Inputs == {OptNone} \cup {OptSome(v) : v \in SuccessValues}
            \cup {Ok("StdResult", v) : v \in SuccessValues}
            \cup {Err("StdResult", e) : e \in NativeFailures}

(***************************************************************************)
(* The cause chain (anyhow::Error), rendered layer by layer, shallowest    *)
(* layer first.                                                            *)
(***************************************************************************)
\* anyhow::Error::from(e): an anyhow::Error stays what it is, any other
\* failure becomes the only layer of a new chain.
anyhow_from(e) == IF e.ty = "anyhow" THEN e.chain ELSE <<e.msg>>
\* anyhow::anyhow!(s): an error made of the message alone.
anyhow_msg(s) == [ty |-> "anyhow", chain |-> <<s>>]
\* anyhow::Error::context(c): c becomes the new shallowest layer.
anyhow_context(chain, c) == <<to_string(c)>> \o chain

(***************************************************************************)
(* struct Error and its methods.                                           *)
(***************************************************************************)
Error(a, c) == [ty |-> "Error", anyhow |-> a, category |-> c]

category(e) == e.category

\* Variants of Error::context: one rebuilds the error from the new chain and
\* so drops the category, one keeps only the new message.
Error_context_recategorize(e, c) == [ty |-> "Error", anyhow |-> anyhow_context(e.anyhow, c), category |-> None]
Error_context_replace(e, c) == [e EXCEPT !.anyhow = <<to_string(c)>>]

Error_context(e, c) == [e EXCEPT !.anyhow = anyhow_context(e.anyhow, c)]

\* impl<E> From<E> for Error where anyhow::Error: From<E>
\* Variant of From: a converted failure starts out as a bad request.
From_categorized(e) == Error(anyhow_from(e), Some(BadRequest))

From(e) == Error(anyhow_from(e), None)

\* E: Into<Error>.  For E = Error the conversion is the reflexive one.
Into(e) == IF e.ty = "Error" THEN e ELSE From(e)

(***************************************************************************)
(* trait CategoryExt and its implementation for Result<T, E>.              *)
(***************************************************************************)
\* A closure FnOnce(&mut Error) is a function from the error it is handed to
\* the error it leaves behind; ErrorsOf(r) is the set of errors r can hand it.
ErrorsOf(r) == IF r.tag = "Err" THEN {Into(r.e)} ELSE {}

_internal_error_mut(r, f) ==
    IF r.tag = "Ok" THEN Ok("Result", r.v)
    ELSE Err("Result", f[Into(r.e)])

\* Variants of with_category: one keeps the first category set, one rebuilds
\* the error from its rendered top layer.
with_category_keep_first(r, c) ==
    LET f == [e \in ErrorsOf(r) |->
                 IF e.category = None THEN [e EXCEPT !.category = Some(c)] ELSE e]
    IN  _internal_error_mut(r, f)

with_category_flatten(r, c) ==
    LET f == [e \in ErrorsOf(r) |-> Error(<<Head(e.anyhow)>>, Some(c))]
    IN  _internal_error_mut(r, f)

with_category(r, c) ==
    LET f == [e \in ErrorsOf(r) |-> [e EXCEPT !.category = Some(c)]]
    IN  _internal_error_mut(r, f)

bad_request(r) == with_category(r, BadRequest)

(***************************************************************************)
(* trait Context, for Result<T, E> and for Option<T>.  with_context gets   *)
(* the closure and the probe count, and returns the result with the new    *)
(* probe count.                                                            *)
(***************************************************************************)
Result_context(r, c) ==
    IF r.tag = "Ok" THEN Ok("Result", r.v)
    ELSE Err("Result", Error_context(Into(r.e), c))

\* Variant of with_context: the closure runs before the match.
Result_with_context_eager(r, f, n) ==
    LET c == Call(f, n)
    IN  IF r.tag = "Ok" THEN [r |-> Ok("Result", r.v), calls |-> c.calls]
        ELSE [r |-> Err("Result", Error_context(Into(r.e), c.ret)), calls |-> c.calls]

Result_with_context(r, f, n) ==
    IF r.tag = "Ok" THEN [r |-> Ok("Result", r.v), calls |-> n]
    ELSE LET c == Call(f, n)
         IN  [r |-> Err("Result", Error_context(Into(r.e), c.ret)), calls |-> c.calls]

\* Variant of Option::context: the message wraps a placeholder failure.
Option_context_wrapped(r, c) ==
    IF r.tag = "Some" THEN Ok("Result", r.v)
    ELSE Err("Result", Error_context(From(anyhow_msg("value was None")), c))

Option_context(r, c) ==
    IF r.tag = "Some" THEN Ok("Result", r.v)
    ELSE Err("Result", From(anyhow_msg(to_string(c))))

\* Variant of Option::with_context: the closure runs before the match.
Option_with_context_eager(r, f, n) ==
    LET c == Call(f, n)
    IN  IF r.tag = "Some" THEN [r |-> Ok("Result", r.v), calls |-> c.calls]
        ELSE [r |-> Err("Result", From(anyhow_msg(to_string(c.ret)))), calls |-> c.calls]

Option_with_context(r, f, n) ==
    IF r.tag = "Some" THEN [r |-> Ok("Result", r.v), calls |-> n]
    ELSE LET c == Call(f, n)
         IN  [r |-> Err("Result", From(anyhow_msg(to_string(c.ret)))),
              calls |-> c.calls]

\* The `?` operator in a function returning api_err::Result<T>: Ok(r?)
question_mark(r) ==
    IF r.tag = "Ok" THEN Ok("Result", r.v)
    ELSE Err("Result", Into(r.e))

(***************************************************************************)
(* Protocol status mappers.                                                *)
(***************************************************************************)
\* Variant of the HTTP mapper: a Custom category is treated as uncategorized.
http_status_code_no_custom(cat) ==
    IF cat = None THEN 500
    ELSE IF cat.v.tag = "BadRequest" THEN 400
    ELSE 500

http_status_code(cat) ==
    IF cat = None THEN 500
    ELSE IF cat.v.tag = "BadRequest" THEN 400
    ELSE cat.v.http_status

\* Variant of the JSON-RPC mapper: a Custom category yields its HTTP field.
json_rpc_status_code_wrong_field(cat) ==
    IF cat = None THEN -32000
    ELSE IF cat.v.tag = "BadRequest" THEN -32600
    ELSE cat.v.http_status

json_rpc_status_code(cat) ==
    IF cat = None THEN -32000
    ELSE IF cat.v.tag = "BadRequest" THEN -32600
    ELSE cat.v.json_rpc_status

http_status(e) == http_status_code(e.category)
json_rpc_status(e) == json_rpc_status_code(e.category)

(***************************************************************************)
(* Observations used by the properties.                                    *)
(***************************************************************************)
\* The rendered layers of the failure a value carries, shallowest first.
Chain(r) ==
    IF r.tag # "Err" THEN <<>>
    ELSE IF r.e.ty = "Error" THEN r.e.anyhow
    ELSE anyhow_from(r.e)

\* The category a value carries.
CategoryOf(r) ==
    IF r.tag = "Err" /\ r.e.ty = "Error" THEN category(r.e) ELSE None

Record(op, c, m, ret) ==
    [op |-> op, cat |-> c, msg |-> m, before |-> res, calls |-> calls, ret |-> ret]

(***************************************************************************)
(* State machine.                                                          *)
(***************************************************************************)
Init ==
    /\ input \in Inputs
    /\ res = input
    /\ calls = 0
    /\ log = <<>>
    /\ last = [op |-> "none", cat |-> None, msg |-> {}, before |-> input,
               calls |-> 0, ret |-> 0]

IsResult(r) == r.ty \in {"StdResult", "Result"}

\* Context attachments on the failure path are counted, newest first.
Logged(r, m) == IF IsFailure(r) THEN <<to_string(m)>> \o log ELSE log

WithCategory ==
    \E c \in Categories :
        /\ IsResult(res)
        /\ res' = with_category(res, c)
        /\ last' = Record("with_category", Some(c), {}, 0)
        /\ UNCHANGED <<input, calls, log>>

BadRequestOp ==
    /\ IsResult(res)
    /\ res' = bad_request(res)
    /\ last' = Record("bad_request", None, {}, 0)
    /\ UNCHANGED <<input, calls, log>>

ResultContext ==
    \E m \in Messages :
        /\ IsResult(res)
        /\ Len(log) < MaxCtx
        /\ res' = Result_context(res, m)
        /\ log' = Logged(res, m)
        /\ last' = Record("context", None, {m}, 0)
        /\ UNCHANGED <<input, calls>>

ResultWithContext ==
    \E f \in Closures :
        /\ IsResult(res)
        /\ Len(log) < MaxCtx
        /\ LET out == Result_with_context(res, f, calls)
           IN  /\ res' = out.r
               /\ calls' = out.calls
        /\ log' = Logged(res, f.ret)
        /\ last' = Record("with_context", None, {f.ret}, 0)
        /\ UNCHANGED input

OptionContext ==
    \E m \in Messages :
        /\ res.ty = "Option"
        /\ res' = Option_context(res, m)
        /\ log' = Logged(res, m)
        /\ last' = Record("context", None, {m}, 0)
        /\ UNCHANGED <<input, calls>>

OptionWithContext ==
    \E f \in Closures :
        /\ res.ty = "Option"
        /\ LET out == Option_with_context(res, f, calls)
           IN  /\ res' = out.r
               /\ calls' = out.calls
        /\ log' = Logged(res, f.ret)
        /\ last' = Record("with_context", None, {f.ret}, 0)
        /\ UNCHANGED input

\* Error::context called on the error itself, e.g. in map_err.
ErrorContext ==
    \E m \in Messages :
        /\ res.ty = "Result" /\ res.tag = "Err"
        /\ Len(log) < MaxCtx
        /\ res' = Err("Result", Error_context(res.e, m))
        /\ log' = Logged(res, m)
        /\ last' = Record("Error::context", None, {m}, 0)
        /\ UNCHANGED <<input, calls>>

QuestionMark ==
    /\ IsResult(res)
    /\ res' = question_mark(res)
    /\ last' = Record("?", None, {}, 0)
    /\ UNCHANGED <<input, calls, log>>

HttpStatus ==
    /\ res.ty = "Result" /\ res.tag = "Err"
    /\ last' = Record("http_status", None, {}, http_status(res.e))
    /\ UNCHANGED <<res, input, calls, log>>

JsonRpcStatus ==
    /\ res.ty = "Result" /\ res.tag = "Err"
    /\ last' = Record("json_rpc_status", None, {}, json_rpc_status(res.e))
    /\ UNCHANGED <<res, input, calls, log>>

Next ==
    \/ WithCategory
    \/ BadRequestOp
    \/ ResultContext
    \/ ResultWithContext
    \/ OptionContext
    \/ OptionWithContext
    \/ ErrorContext
    \/ QuestionMark
    \/ HttpStatus
    \/ JsonRpcStatus

Spec == Init /\ [][Next]_vars

TypeOK ==
    /\ input \in Inputs
    /\ calls \in 0 .. MaxCtx
    /\ Len(log) <= MaxCtx
    /\ IsResult(res) \/ res.ty = "Option"
    /\ \A c \in Categories : c.tag = "Custom" =>
           c.http_status \in U16 /\ c.json_rpc_status \in I32Min .. I32Max

(***************************************************************************)
(* Properties.                                                             *)
(***************************************************************************)
ContextOps == {"context", "with_context", "Error::context"}
CategoryOps == {"with_category", "bad_request"}
LastMsg == CHOOSE m \in last.msg : TRUE

\* C1: with_category(C) on a failing result yields an error whose category
\* is Some(C), whatever category the error had before (last write wins, the
\* result is still a failure); bad_request() is with_category(BadRequest).
C1_LastWriteWins ==
    /\ (last.op = "with_category" /\ IsFailure(last.before)) =>
           /\ res.ty = "Result" /\ res.tag = "Err"
           /\ category(res.e) = last.cat
    /\ (last.op = "bad_request" /\ IsFailure(last.before)) =>
           /\ res.ty = "Result" /\ res.tag = "Err"
           /\ category(res.e) = Some(BadRequest)

\* C1 witness: a category was overwritten by a different one.
C1_Witness ==
    /\ last.op = "with_category"
    /\ CategoryOf(last.before) # None
    /\ CategoryOf(last.before) # last.cat
    /\ CategoryOf(res) = last.cat

\* C2: attaching context never changes the category, however many layers
\* have been attached and whichever of the context operations is used.
C2_ContextKeepsCategory ==
    last.op \in ContextOps => CategoryOf(res) = CategoryOf(last.before)

\* C2 witness: a second context layer was put on an error with a Custom category.
C2_Witness ==
    /\ last.op \in ContextOps
    /\ Len(log) = 2
    /\ CategoryOf(last.before) # None
    /\ CategoryOf(last.before).v.tag = "Custom"
    /\ CategoryOf(res) = CategoryOf(last.before)

\* C3: attaching a category leaves the cause chain as it was: same layers in
\* the same order, also when an earlier category is overwritten.
C3_CategoryKeepsChain ==
    (last.op \in CategoryOps /\ IsFailure(last.before)) =>
        Chain(res) = Chain(last.before)

\* C3 witness: a category was overwritten on an error with three layers.
C3_Witness ==
    /\ last.op \in CategoryOps
    /\ CategoryOf(last.before) # None
    /\ CategoryOf(res) # CategoryOf(last.before)
    /\ Len(Chain(last.before)) = 3
    /\ Chain(res) = Chain(last.before)

\* C4: a native failure converted into the error type (by `?` or by a
\* combinator's e.into()) has no category and the failure as its cause chain;
\* a value that is already an Error passes through the conversion unchanged.
C4_ConversionUncategorized ==
    /\ (last.op = "?" /\ last.before.tag = "Err") =>
           IF last.before.e.ty = "Error"
           THEN res = Err("Result", last.before.e)
           ELSE res = Err("Result", [ty |-> "Error", anyhow |-> <<last.before.e.msg>>,
                                     category |-> None])
    /\ (last.op \in {"context", "with_context"} /\ last.before.tag = "Err"
          /\ last.before.e.ty # "Error") =>
           /\ category(res.e) = None
           /\ Tail(res.e.anyhow) = <<last.before.e.msg>>

\* C4 witness: `?` converted a native failure.
C4_Witness ==
    /\ last.op = "?"
    /\ last.before.tag = "Err"
    /\ last.before.e.ty = "ParseIntError"
    /\ res.tag = "Err" /\ res.e.ty = "Error"
    /\ category(res.e) = None

\* C5: the HTTP status of an error is 500 without a category, 400 for
\* BadRequest and the carried http_status for Custom, whatever the chain and
\* the Custom's json_rpc_status are.
C5_HttpStatus ==
    last.op = "http_status" =>
        LET cat == CategoryOf(last.before)
        IN  /\ cat = None => last.ret = 500
            /\ cat = Some(BadRequest) => last.ret = 400
            /\ (cat # None /\ cat.v.tag = "Custom") =>
                   /\ last.ret = cat.v.http_status
                   /\ \A j \in JsonRpcSamples :
                          last.ret = http_status_code(Some(Custom(cat.v.http_status, j)))
            /\ last.ret \in U16

\* C5 witness: the status of a Custom category was read off a layered error.
C5_Witness ==
    /\ last.op = "http_status"
    /\ last.ret = 418
    /\ Len(Chain(res)) = 2

\* C6: the JSON-RPC status of an error is -32000 without a category, -32600
\* for BadRequest and the carried json_rpc_status for Custom (negative values
\* included), whatever the chain and the Custom's http_status are.
C6_JsonRpcStatus ==
    last.op = "json_rpc_status" =>
        LET cat == CategoryOf(last.before)
        IN  /\ cat = None => last.ret = -32000
            /\ cat = Some(BadRequest) => last.ret = -32600
            /\ (cat # None /\ cat.v.tag = "Custom") =>
                   /\ last.ret = cat.v.json_rpc_status
                   /\ \A h \in HttpSamples :
                          last.ret = json_rpc_status_code(Some(Custom(h, cat.v.json_rpc_status)))
            /\ last.ret \in I32Min .. I32Max

\* C6 witness: the smallest 32-bit status was read off a layered error.
C6_Witness ==
    /\ last.op = "json_rpc_status"
    /\ last.ret = I32Min
    /\ Len(Chain(res)) = 2

\* C7: with_context(f) runs f zero times on a successful input and exactly
\* once on a failing one, where f's result becomes the new context message.
C7_WithContextLazy ==
    last.op = "with_context" =>
        /\ IsSuccess(last.before) => calls = last.calls
        /\ IsFailure(last.before) =>
               /\ calls = last.calls + 1
               /\ Head(Chain(res)) = to_string(LastMsg)

\* C7 witness: with_context was applied to a successful Result and the
\* closure has not run.
C7_Witness ==
    /\ last.op = "with_context"
    /\ last.before.tag = "Ok"
    /\ res.tag = "Ok"
    /\ calls = 0

\* C8: context / with_context on None gives a new error with exactly one
\* layer, the message, and no category; bad_request() on that result sets
\* the category to BadRequest and leaves the one message layer.
C8_OptionFailure ==
    /\ (last.op \in {"context", "with_context"} /\ last.before = OptNone) =>
           res = Err("Result", [ty |-> "Error", anyhow |-> <<to_string(LastMsg)>>,
                                category |-> None])
    /\ (last.op = "bad_request" /\ input = OptNone /\ Len(log) = 1) =>
           /\ category(res.e) = Some(BadRequest)
           /\ res.e.anyhow = log

\* C8 witness: None.context("Input too large").bad_request()
C8_Witness ==
    /\ input = OptNone
    /\ last.op = "bad_request"
    /\ CategoryOf(last.before) = None
    /\ res = Err("Result", [ty |-> "Error", anyhow |-> <<"Input too large">>,
                            category |-> Some(BadRequest)])

\* The layers a failing input starts with: the native failure, or nothing
\* for None.
Origin == IF input.tag = "Err" THEN <<input.e.msg>> ELSE <<>>

\* C9: each context attachment on a failing value puts exactly its message
\* on top of the layers that were there, so for an error that came from a
\* native failure the chain is always the attached messages, newest first,
\* above the original failure, and has 1 + (number of attachments) layers.
C9_LayersAppendOnly ==
    /\ (last.op \in ContextOps /\ last.before.tag = "Err") =>
           Chain(res) = <<to_string(LastMsg)>> \o Chain(last.before)
    /\ res.tag = "Err" =>
           /\ Chain(res) = log \o Origin
           /\ input.tag = "Err" =>
                  /\ Len(Chain(res)) = 1 + Len(log)
                  /\ Chain(res)[Len(Chain(res))] = input.e.msg

\* C9 witness: two context layers and a category on a parse failure.
C9_Witness ==
    /\ input.tag = "Err"
    /\ Len(log) = 2
    /\ log[1] # log[2]
    /\ CategoryOf(res) = Some(BadRequest)
    /\ Len(Chain(res)) = 3

\* C10: on a successful input every combinator returns Ok with the same
\* value; no error is made, no closure runs and no context is recorded.
C10_SuccessPassThrough ==
    (IsSuccess(last.before) /\ last.op \in ContextOps \cup CategoryOps) =>
        /\ res = Ok("Result", last.before.v)
        /\ res.v = input.v
        /\ calls = last.calls
        /\ calls = 0
        /\ log = <<>>

\* C10 witness: with_context passed Some(v) through as Ok(v).
C10_Witness ==
    /\ last.op = "with_context"
    /\ last.before.ty = "Option" /\ last.before.tag = "Some"
    /\ res = Ok("Result", last.before.v)

====
